---- MODULE Spec2Model ----
(***************************************************************************)
(* Model of generateApiDocs.py: the docfx orchestration script.             *)
(*                                                                         *)
(* The script is one sequential process.  Its state is the position in the *)
(* script (pc), the script's variables (docfxPath, gitignores, projects),  *)
(* the pending exception (exc), and the part of the filesystem it touches: *)
(* the .gitignore file, the listing of the current directory, the          *)
(* temporary directory and the destination path.  Strings that the script  *)
(* inspects character by character (ignore-file content, directory names)  *)
(* are sequences of one-character strings.                                 *)
(***************************************************************************)
EXTENDS Integers, Sequences, FiniteSets, TLC

VARIABLES
    pc,             \* position in the script
    docfxArg,       \* parsedArgs.docfx_path
    outputArg,      \* parsedArgs.output
    docfxPath,      \* docfxPath
    tempDirExists,  \* whether the directory returned by mkdtemp exists
    tempFiles,      \* entries of tempDir
    gitignoreExists,\* whether ./.gitignore exists
    gitignoreFile,  \* content of ./.gitignore
    gitignores,     \* gitignores
    dirEntries,     \* names yielded by os.scandir("."), in scan order
    csprojFiles,    \* names n for which n/n.csproj exists
    projects,       \* projects
    invocations,    \* the subprocess.run calls made, in order
    calls,          \* the steps of this run, in order, each with its result
    output,         \* what is at parsedArgs.output
    buildOutput,    \* the files docfx build wrote into tempDir/site
    exc,            \* the exception being propagated, or None
    exitStatus,     \* exit status of the process, Running until it exits
    outputBefore,   \* what was at parsedArgs.output when the process started
    runs,           \* number of processes started so far
    prev            \* how the process before this one ended

vars == <<pc, docfxArg, outputArg, docfxPath, tempDirExists, tempFiles,
          gitignoreExists, gitignoreFile, gitignores, dirEntries, csprojFiles, projects,
          invocations, calls, output, buildOutput, exc, exitStatus,
          outputBefore, runs, prev>>

-----------------------------------------------------------------------------
(* Bounds *)

\* longest ignore-file content drawn from IgnoreAlphabet
MaxLen == 4
\* most directory entries drawn from EntryNames
MaxEntries == 3
\* number of times the script is started
MaxRuns == 2

-----------------------------------------------------------------------------
(* Values *)

\* Python's None
None == "None"

\* exitStatus of a process that has not exited
Running == -1

\* str.strip() without arguments removes whitespace
Whitespace == {" ", "\t", "\n", "\r"}

IgnoreAlphabet == {"a", " ", "\n", "/", "*"}

\* "bin\n obj \n*.generated\nThirdParty/"
ScenarioIgnore ==
    <<"b","i","n","\n"," ","o","b","j"," ","\n",
      "*",".","g","e","n","e","r","a","t","e","d","\n",
      "T","h","i","r","d","P","a","r","t","y","/">>

Foo      == <<"F","o","o">>
FooTests == <<"F","o","o",".","T","e","s","t","s">>
Bin      == <<"b","i","n">>
Obj      == <<"o","b","j">>
Bar      == <<"B","a","r">>
DotTests == <<".","T","e","s","t","s">>
Tests    == <<"T","e","s","t","s">>

EntryNames == {Foo, FooTests, Bin, Bar, DotTests, Tests}

TestsSuffix == <<".","T","e","s","t","s">>
CsprojExt   == <<".","c","s","p","r","o","j">>

\* components of os.getcwd()
Cwd == << <<"r","e","p","o">> >>

\* the repository listing of the scenario: Foo/Foo.csproj,
\* Foo.Tests/Foo.Tests.csproj, bin/ and Bar/
ScenarioEntries == <<Foo, FooTests, Bin, Bar>>
ScenarioCsproj  == {Foo, FooTests}

GivenDocfx == "tools/docfx.exe"
WhichDocfx == "/usr/bin/docfx"
OutputPath == "docs/api"
TempDir    == "/tmp/tmpdir"

\* files, as paths relative to the directory that holds them
IndexHtml == <<"index.html">>
TocHtml   == <<"toc.html">>
OldHtml   == <<"old.html">>
SiteFiles == {IndexHtml, TocHtml}
OldFiles  == {IndexHtml, OldHtml}

Absent      == [kind |-> "absent", files |-> {}]
RegularFile == [kind |-> "file", files |-> {}]
Dir(fs)     == [kind |-> "dir", files |-> fs]

OutputStates == {Absent, RegularFile} \cup {Dir(fs) : fs \in SUBSET OldFiles}

-----------------------------------------------------------------------------
(* Pure functions *)

\* x or y
Or(x, y) == IF x # None /\ x # "" THEN x ELSE y

\* sequences over S of length at most n
SeqsUpTo(S, n) == UNION {[1..k -> S] : k \in 0..n}

\* file.readlines(): the lines, each with its terminating newline
RECURSIVE ReadLines(_)
ReadLines(s) ==
    IF s = <<>> THEN <<>>
    ELSE IF \E i \in 1..Len(s) : s[i] = "\n"
         THEN LET n == CHOOSE i \in 1..Len(s) :
                           s[i] = "\n" /\ \A j \in 1..(i-1) : s[j] # "\n"
              IN  <<SubSeq(s, 1, n)>> \o ReadLines(SubSeq(s, n+1, Len(s)))
         ELSE <<s>>

RECURSIVE LStrip(_)
LStrip(s) ==
    IF s # <<>> /\ Head(s) \in Whitespace THEN LStrip(Tail(s)) ELSE s

RECURSIVE RStrip(_)
RStrip(s) ==
    IF s # <<>> /\ s[Len(s)] \in Whitespace
    THEN RStrip(SubSeq(s, 1, Len(s)-1)) ELSE s

\* Strip with the right-hand side left untrimmed
StripLeftOnly(s) == LStrip(s)

\* str.strip()
Strip(s) == RStrip(LStrip(s))

\* str.find(ch): index of the first occurrence, counted from 0, or -1
Find(s, ch) ==
    IF \E i \in 1..Len(s) : s[i] = ch
    THEN (CHOOSE i \in 1..Len(s) : s[i] = ch /\ \A j \in 1..(i-1) : s[j] # ch) - 1
    ELSE -1

\* the set comprehension that builds gitignores
Gitignores(content) ==
    LET lines    == ReadLines(content)
        stripped == {Strip(lines[i]) : i \in 1..Len(lines)}
    IN  {line \in stripped :
            Len(line) # 0 /\ Find(line, "/") = -1 /\ Find(line, "*") = -1}

\* str.endswith(suffix)
EndsWith(s, suffix) ==
    /\ Len(s) >= Len(suffix)
    /\ SubSeq(s, Len(s) - Len(suffix) + 1, Len(s)) = suffix

\* path.join(name, name + ".csproj"), as path components
CsprojPath(name) == <<name, name \o CsprojExt>>

\* path.abspath(p) of a relative path without "." or ".." components
AbsPath(p) == Cwd \o p

\* Discover without the test-project exclusion
RECURSIVE DiscoverNoTests(_, _, _)
DiscoverNoTests(entries, ignores, csproj) ==
    IF entries = <<>> THEN <<>>
    ELSE LET name == Head(entries)
             rest == DiscoverNoTests(Tail(entries), ignores, csproj)
         IN  IF name \in ignores
             THEN rest
             ELSE IF name \notin csproj
                  THEN rest
                  ELSE <<AbsPath(CsprojPath(name))>> \o rest

\* the project discovery loop over the scanned entries
RECURSIVE Discover(_, _, _)
Discover(entries, ignores, csproj) ==
    IF entries = <<>> THEN <<>>
    ELSE LET name == Head(entries)
             rest == Discover(Tail(entries), ignores, csproj)
         IN  IF EndsWith(name, TestsSuffix) \/ name \in ignores
             THEN rest
             ELSE IF name \notin csproj
                  THEN rest
                  ELSE <<AbsPath(CsprojPath(name))>> \o rest

\* shutil.move(src, dst) raises when dst is a directory that already holds
\* an entry named as src, or when dst is a regular file
MoveRaises(srcName, dst) ==
    \/ dst.kind = "dir" /\ \E f \in dst.files : Head(f) = srcName
    \/ dst.kind = "file"

\* shutil.move(src, dst) of the directory srcName holding srcFiles: the
\* destination afterwards; an existing directory dst receives src inside it
ShutilMove(srcName, srcFiles, dst) ==
    IF dst.kind = "dir"
    THEN Dir(dst.files \cup {<<srcName>> \o f : f \in srcFiles})
    ELSE Dir(srcFiles)

Call(op, result) == [op |-> op, result |-> result]

Called(op)    == \E i \in 1..Len(calls) : calls[i].op = op
Completed(op) == \E i \in 1..Len(calls) : calls[i] = Call(op, "ok")
Index(op)     == CHOOSE i \in 1..Len(calls) : calls[i].op = op


-----------------------------------------------------------------------------
(* The script *)

Invocation(exe, mode, args, projs, rc) ==
    [exe |-> exe, mode |-> mode, args |-> args, projects |-> projs,
     cwd |-> TempDir, returncode |-> rc]

\* lines 8-12: a process starts and parses its arguments; argparse exits
\* with status 2 when the required --output is missing
ParseArgs ==
    /\ pc = "parse"
    /\ \E d \in {None, "", GivenDocfx}, o \in {None, OutputPath} :
          /\ docfxArg' = d
          /\ outputArg' = o
          /\ \/ /\ o = None
                /\ exitStatus' = 2
                /\ pc' = "done"
             \/ /\ o # None
                /\ exitStatus' = exitStatus
                /\ pc' = "resolve"
    /\ UNCHANGED <<docfxPath, tempDirExists, tempFiles, gitignoreExists,
                   gitignoreFile, gitignores, dirEntries, csprojFiles,
                   projects, invocations, calls, output, buildOutput, exc,
                   outputBefore, runs, prev>>

\* Resolve with the operands of "or" exchanged: the search path first
ResolveWhichFirst ==
    /\ pc = "resolve"
    /\ \E w \in {None, WhichDocfx} :
          /\ docfxPath' = Or(w, docfxArg)
          /\ \/ /\ docfxPath' # None
                /\ calls' = Append(calls, Call("which", IF w = None THEN "None" ELSE "ok"))
                /\ pc' = "mkdtemp"
                /\ exc' = exc
             \/ /\ docfxPath' = None
                /\ calls' = Append(calls, Call("which", "None"))
                /\ exc' = "RuntimeError"
                /\ pc' = "exit"
    /\ UNCHANGED <<docfxArg, outputArg, tempDirExists, tempFiles,
                   gitignoreExists, gitignoreFile, gitignores, dirEntries,
                   csprojFiles, projects, invocations, output, buildOutput,
                   exitStatus, outputBefore, runs, prev>>

\* lines 14-16: shutil.which is evaluated only when docfx_path is falsy
Resolve ==
    /\ pc = "resolve"
    /\ \/ /\ Or(docfxArg, None) # None
          /\ docfxPath' = docfxArg
          /\ pc' = "mkdtemp"
          /\ UNCHANGED <<calls, exc>>
       \/ /\ Or(docfxArg, None) = None
          /\ \E w \in {None, WhichDocfx} :
                /\ docfxPath' = Or(docfxArg, w)
                /\ \/ /\ docfxPath' # None
                      /\ calls' = Append(calls, Call("which", "ok"))
                      /\ pc' = "mkdtemp"
                      /\ exc' = exc
                   \/ /\ docfxPath' = None
                      /\ calls' = Append(calls, Call("which", "None"))
                      /\ exc' = "RuntimeError"
                      /\ pc' = "exit"
    /\ UNCHANGED <<docfxArg, outputArg, tempDirExists, tempFiles,
                   gitignoreExists, gitignoreFile, gitignores, dirEntries,
                   csprojFiles, projects, invocations, output, buildOutput,
                   exitStatus, outputBefore, runs, prev>>

\* line 18: tempfile.mkdtemp(), outside the try statement
Mkdtemp ==
    /\ pc = "mkdtemp"
    /\ \/ /\ tempDirExists' = TRUE
          /\ tempFiles' = {}
          /\ calls' = Append(calls, Call("mkdtemp", "ok"))
          /\ pc' = "writeConfig"
          /\ exc' = exc
       \/ /\ UNCHANGED <<tempDirExists, tempFiles>>
          /\ calls' = Append(calls, Call("mkdtemp", "OSError"))
          /\ exc' = "OSError"
          /\ pc' = "exit"
    /\ UNCHANGED <<docfxArg, outputArg, docfxPath, gitignoreExists,
                   gitignoreFile, gitignores, dirEntries, csprojFiles,
                   projects, invocations, output, buildOutput, exitStatus,
                   outputBefore, runs, prev>>

\* lines 21-23: docfx.json is written into tempDir
WriteConfig ==
    /\ pc = "writeConfig"
    /\ \/ /\ tempFiles' = tempFiles \cup {"docfx.json"}
          /\ calls' = Append(calls, Call("writeConfig", "ok"))
          /\ pc' = "readIgnore"
          /\ exc' = exc
       \/ /\ \E created \in BOOLEAN :
                tempFiles' = IF created THEN tempFiles \cup {"docfx.json"}
                                        ELSE tempFiles
          /\ calls' = Append(calls, Call("writeConfig", "OSError"))
          /\ exc' = "OSError"
          /\ pc' = "finally"
    /\ UNCHANGED <<docfxArg, outputArg, docfxPath, tempDirExists,
                   gitignoreExists, gitignoreFile, gitignores, dirEntries,
                   csprojFiles, projects, invocations, output, buildOutput,
                   exitStatus, outputBefore, runs, prev>>

\* ReadIgnore that takes a missing .gitignore for an empty one
ReadIgnoreLenient ==
    /\ pc = "readIgnore"
    /\ gitignores' = IF gitignoreExists THEN Gitignores(gitignoreFile) ELSE {}
    /\ calls' = Append(calls, Call("readIgnore", "ok"))
    /\ pc' = "scan"
    /\ UNCHANGED <<docfxArg, outputArg, docfxPath, tempDirExists, tempFiles,
                   gitignoreExists, gitignoreFile, dirEntries, csprojFiles,
                   projects, invocations, output, buildOutput, exc,
                   exitStatus, outputBefore, runs, prev>>

\* ReadIgnore placed before the try statement: its exception skips finally
ReadIgnoreOutsideTry ==
    /\ pc = "readIgnore"
    /\ \/ /\ gitignoreExists
          /\ gitignores' = Gitignores(gitignoreFile)
          /\ calls' = Append(calls, Call("readIgnore", "ok"))
          /\ pc' = "scan"
          /\ exc' = exc
       \/ /\ ~gitignoreExists
          /\ gitignores' = gitignores
          /\ calls' = Append(calls, Call("readIgnore", "FileNotFoundError"))
          /\ exc' = "FileNotFoundError"
          /\ pc' = "exit"
    /\ UNCHANGED <<docfxArg, outputArg, docfxPath, tempDirExists, tempFiles,
                   gitignoreExists, gitignoreFile, dirEntries, csprojFiles,
                   projects, invocations, output, buildOutput, exitStatus,
                   outputBefore, runs, prev>>

\* lines 25-30: .gitignore is opened and gitignores is built
ReadIgnore ==
    /\ pc = "readIgnore"
    /\ \/ /\ gitignoreExists
          /\ gitignores' = Gitignores(gitignoreFile)
          /\ calls' = Append(calls, Call("readIgnore", "ok"))
          /\ pc' = "scan"
          /\ exc' = exc
       \/ /\ ~gitignoreExists
          /\ gitignores' = gitignores
          /\ calls' = Append(calls, Call("readIgnore", "FileNotFoundError"))
          /\ exc' = "FileNotFoundError"
          /\ pc' = "finally"
    /\ UNCHANGED <<docfxArg, outputArg, docfxPath, tempDirExists, tempFiles,
                   gitignoreExists, gitignoreFile, dirEntries, csprojFiles,
                   projects, invocations, output, buildOutput, exitStatus,
                   outputBefore, runs, prev>>

\* lines 33-46: the current directory is scanned and projects is built
ScanDir ==
    /\ pc = "scan"
    /\ \/ /\ projects' = Discover(dirEntries, gitignores, csprojFiles)
          /\ calls' = Append(calls, Call("scan", "ok"))
          /\ pc' = "metadata"
          /\ exc' = exc
       \/ /\ projects' = <<>>
          /\ calls' = Append(calls, Call("scan", "OSError"))
          /\ exc' = "OSError"
          /\ pc' = "finally"
    /\ UNCHANGED <<docfxArg, outputArg, docfxPath, tempDirExists, tempFiles,
                   gitignoreExists, gitignoreFile, gitignores, dirEntries,
                   csprojFiles, invocations, output, buildOutput, exitStatus,
                   outputBefore, runs, prev>>

MetadataArgs == <<"metadata", "--output", "__api">>
BuildArgs    == <<"build", "--content", "api/**.yml", "--template", "statictoc",
                  "--output", "site", "--markdownEngineName", "markdig">>

\* Metadata with check = False: the exit status is ignored
MetadataUnchecked ==
    /\ pc = "metadata"
    /\ \E created \in BOOLEAN, rc \in {0, 1} :
          /\ tempFiles' = IF created THEN tempFiles \cup {"__api/__api"}
                                     ELSE tempFiles
          /\ invocations' = Append(invocations,
                 Invocation(docfxPath, "metadata", MetadataArgs, projects, rc))
          /\ calls' = Append(calls,
                 Call("metadata", IF rc = 0 THEN "ok" ELSE "exit1"))
    /\ pc' = "relocate"
    /\ UNCHANGED <<docfxArg, outputArg, docfxPath, tempDirExists,
                   gitignoreExists, gitignoreFile, gitignores, dirEntries,
                   csprojFiles, projects, output, buildOutput, exc,
                   exitStatus, outputBefore, runs, prev>>

\* Metadata that runs the tool again after a non-zero exit status
MetadataRetry ==
    /\ pc = "metadata"
    /\ \E created \in BOOLEAN, rc \in {0, 1} :
          /\ tempFiles' = IF created THEN tempFiles \cup {"__api/__api"}
                                     ELSE tempFiles
          /\ invocations' = Append(invocations,
                 Invocation(docfxPath, "metadata", MetadataArgs, projects, rc))
          /\ calls' = Append(calls,
                 Call("metadata", IF rc = 0 THEN "ok" ELSE "exit1"))
          /\ pc' = IF rc = 0 \/ Len(invocations) >= 2
                   THEN "relocate" ELSE "metadata"
    /\ UNCHANGED <<docfxArg, outputArg, docfxPath, tempDirExists,
                   gitignoreExists, gitignoreFile, gitignores, dirEntries,
                   csprojFiles, projects, output, buildOutput, exc,
                   exitStatus, outputBefore, runs, prev>>

\* lines 48-55: docfx metadata runs in tempDir; check = True raises on a
\* non-zero exit status.  The tool may or may not have written __api/__api.
Metadata ==
    /\ pc = "metadata"
    /\ \/ /\ \E created \in BOOLEAN :
                tempFiles' = IF created THEN tempFiles \cup {"__api/__api"}
                                        ELSE tempFiles
          /\ invocations' = Append(invocations,
                 Invocation(docfxPath, "metadata", MetadataArgs, projects, 0))
          /\ calls' = Append(calls, Call("metadata", "ok"))
          /\ pc' = "relocate"
          /\ exc' = exc
       \/ /\ \E created \in BOOLEAN :
                tempFiles' = IF created THEN tempFiles \cup {"__api/__api"}
                                        ELSE tempFiles
          /\ invocations' = Append(invocations,
                 Invocation(docfxPath, "metadata", MetadataArgs, projects, 1))
          /\ calls' = Append(calls, Call("metadata", "CalledProcessError"))
          /\ exc' = "CalledProcessError"
          /\ pc' = "finally"
       \/ /\ UNCHANGED <<tempFiles, invocations>>
          /\ calls' = Append(calls, Call("metadata", "OSError"))
          /\ exc' = "OSError"
          /\ pc' = "finally"
    /\ UNCHANGED <<docfxArg, outputArg, docfxPath, tempDirExists,
                   gitignoreExists, gitignoreFile, gitignores, dirEntries,
                   csprojFiles, projects, output, buildOutput, exitStatus,
                   outputBefore, runs, prev>>

\* line 57: tempDir/__api/__api is moved to tempDir/api
Relocate ==
    /\ pc = "relocate"
    /\ \/ /\ "__api/__api" \in tempFiles
          /\ tempFiles' = (tempFiles \ {"__api/__api"}) \cup {"api"}
          /\ calls' = Append(calls, Call("relocate", "ok"))
          /\ pc' = "build"
          /\ exc' = exc
       \/ /\ "__api/__api" \notin tempFiles
          /\ tempFiles' = tempFiles
          /\ calls' = Append(calls, Call("relocate", "FileNotFoundError"))
          /\ exc' = "FileNotFoundError"
          /\ pc' = "finally"
    /\ UNCHANGED <<docfxArg, outputArg, docfxPath, tempDirExists,
                   gitignoreExists, gitignoreFile, gitignores, dirEntries,
                   csprojFiles, projects, invocations, output, buildOutput,
                   exitStatus, outputBefore, runs, prev>>

\* Build with check = False: the exit status is ignored
BuildUnchecked ==
    /\ pc = "build"
    /\ \E fs \in SUBSET SiteFiles, rc \in {0, 1} :
          /\ tempFiles' = tempFiles \cup {"site"}
          /\ buildOutput' = fs
          /\ invocations' = Append(invocations,
                 Invocation(docfxPath, "build", BuildArgs, <<>>, rc))
          /\ calls' = Append(calls,
                 Call("build", IF rc = 0 THEN "ok" ELSE "exit1"))
    /\ pc' = "removeOutput"
    /\ UNCHANGED <<docfxArg, outputArg, docfxPath, tempDirExists,
                   gitignoreExists, gitignoreFile, gitignores, dirEntries,
                   csprojFiles, projects, output, exc, exitStatus,
                   outputBefore, runs, prev>>

\* lines 59-73: docfx build runs in tempDir; check = True raises on a
\* non-zero exit status.  The tool may or may not have written site.
Build ==
    /\ pc = "build"
    /\ \/ /\ \/ /\ \E fs \in SUBSET SiteFiles :
                      /\ tempFiles' = tempFiles \cup {"site"}
                      /\ buildOutput' = fs
                \/ /\ UNCHANGED <<tempFiles, buildOutput>>
          /\ invocations' = Append(invocations,
                 Invocation(docfxPath, "build", BuildArgs, <<>>, 0))
          /\ calls' = Append(calls, Call("build", "ok"))
          /\ pc' = "removeOutput"
          /\ exc' = exc
       \/ /\ \/ /\ \E fs \in SUBSET SiteFiles :
                      /\ tempFiles' = tempFiles \cup {"site"}
                      /\ buildOutput' = fs
                \/ /\ UNCHANGED <<tempFiles, buildOutput>>
          /\ invocations' = Append(invocations,
                 Invocation(docfxPath, "build", BuildArgs, <<>>, 1))
          /\ calls' = Append(calls, Call("build", "CalledProcessError"))
          /\ exc' = "CalledProcessError"
          /\ pc' = "finally"
       \/ /\ UNCHANGED <<tempFiles, buildOutput, invocations>>
          /\ calls' = Append(calls, Call("build", "OSError"))
          /\ exc' = "OSError"
          /\ pc' = "finally"
    /\ UNCHANGED <<docfxArg, outputArg, docfxPath, tempDirExists,
                   gitignoreExists, gitignoreFile, gitignores, dirEntries,
                   csprojFiles, projects, output, exitStatus, outputBefore,
                   runs, prev>>

\* RemoveOutput without the rmtree: the move meets the old destination
RemoveOutputSkipped ==
    /\ pc = "removeOutput"
    /\ pc' = "moveSite"
    /\ UNCHANGED <<docfxArg, outputArg, docfxPath, tempDirExists, tempFiles,
                   gitignoreExists, gitignoreFile, gitignores, dirEntries,
                   csprojFiles, projects, invocations, calls, output,
                   buildOutput, exc, exitStatus, outputBefore, runs, prev>>

\* lines 75-76: whatever exists at the output path is removed with rmtree,
\* which raises on a regular file and may fail part-way through a directory
RemoveOutput ==
    /\ pc = "removeOutput"
    /\ \/ /\ output.kind = "absent"
          /\ UNCHANGED <<output, calls, exc>>
          /\ pc' = "moveSite"
       \/ /\ output.kind = "dir"
          /\ output' = Absent
          /\ calls' = Append(calls, Call("rmtreeOutput", "ok"))
          /\ pc' = "moveSite"
          /\ exc' = exc
       \/ /\ output.kind = "dir"
          /\ \E rest \in SUBSET output.files : output' = Dir(rest)
          /\ calls' = Append(calls, Call("rmtreeOutput", "OSError"))
          /\ exc' = "OSError"
          /\ pc' = "finally"
       \/ /\ output.kind = "file"
          /\ output' = output
          /\ calls' = Append(calls, Call("rmtreeOutput", "NotADirectoryError"))
          /\ exc' = "NotADirectoryError"
          /\ pc' = "finally"
    /\ UNCHANGED <<docfxArg, outputArg, docfxPath, tempDirExists, tempFiles,
                   gitignoreExists, gitignoreFile, gitignores, dirEntries,
                   csprojFiles, projects, invocations, buildOutput,
                   exitStatus, outputBefore, runs, prev>>

\* line 78: tempDir/site is moved to the output path; a move that has to
\* copy may fail after part of the files were copied
MoveSite ==
    /\ pc = "moveSite"
    /\ \/ /\ "site" \in tempFiles
          /\ ~MoveRaises("site", output)
          /\ output' = ShutilMove("site", buildOutput, output)
          /\ tempFiles' = tempFiles \ {"site"}
          /\ calls' = Append(calls, Call("moveSite", "ok"))
          /\ exc' = exc
       \/ /\ "site" \in tempFiles
          /\ ~MoveRaises("site", output)
          /\ \E part \in SUBSET buildOutput :
                output' = ShutilMove("site", part, output)
          /\ tempFiles' = tempFiles
          /\ calls' = Append(calls, Call("moveSite", "OSError"))
          /\ exc' = "OSError"
       \/ /\ "site" \notin tempFiles \/ MoveRaises("site", output)
          /\ UNCHANGED <<output, tempFiles>>
          /\ calls' = Append(calls, Call("moveSite", "Error"))
          /\ exc' = "Error"
    /\ pc' = "finally"
    /\ UNCHANGED <<docfxArg, outputArg, docfxPath, tempDirExists,
                   gitignoreExists, gitignoreFile, gitignores, dirEntries,
                   csprojFiles, projects, invocations, buildOutput,
                   exitStatus, outputBefore, runs, prev>>

\* Finally as code after the try statement: it runs only when nothing raised
FinallyOnSuccessOnly ==
    /\ pc = "finally"
    /\ \/ /\ exc = None
          /\ tempDirExists' = FALSE
          /\ tempFiles' = {}
          /\ calls' = Append(calls, Call("rmtreeTemp", "ok"))
       \/ /\ exc # None
          /\ UNCHANGED <<tempDirExists, tempFiles, calls>>
    /\ pc' = "exit"
    /\ UNCHANGED <<docfxArg, outputArg, docfxPath, gitignoreExists,
                   gitignoreFile, gitignores, dirEntries, csprojFiles,
                   projects, invocations, output, buildOutput, exc,
                   exitStatus, outputBefore, runs, prev>>

\* lines 80-81: the finally clause removes tempDir
Finally ==
    /\ pc = "finally"
    /\ tempDirExists' = FALSE
    /\ tempFiles' = {}
    /\ calls' = Append(calls, Call("rmtreeTemp", "ok"))
    /\ pc' = "exit"
    /\ UNCHANGED <<docfxArg, outputArg, docfxPath, gitignoreExists,
                   gitignoreFile, gitignores, dirEntries, csprojFiles,
                   projects, invocations, output, buildOutput, exc,
                   exitStatus, outputBefore, runs, prev>>

\* the interpreter exits: status 1 for an uncaught exception, 0 otherwise
Exit ==
    /\ pc = "exit"
    /\ exitStatus' = IF exc = None THEN 0 ELSE 1
    /\ pc' = "done"
    /\ UNCHANGED <<docfxArg, outputArg, docfxPath, tempDirExists, tempFiles,
                   gitignoreExists, gitignoreFile, gitignores, dirEntries,
                   csprojFiles, projects, invocations, calls, output,
                   buildOutput, exc, outputBefore, runs, prev>>

\* line 6: the script is started again, on the filesystem the earlier
\* process left behind; mkdtemp will name a new temporary directory
Start ==
    /\ pc = "done"
    /\ runs < MaxRuns
    /\ prev' = [exitStatus |-> exitStatus, exc |-> exc,
                buildOutput |-> buildOutput]
    /\ runs' = runs + 1
    /\ pc' = "parse"
    /\ docfxArg' = None
    /\ outputArg' = None
    /\ docfxPath' = None
    /\ tempDirExists' = FALSE
    /\ tempFiles' = {}
    /\ gitignores' = {}
    /\ projects' = <<>>
    /\ invocations' = <<>>
    /\ calls' = <<>>
    /\ buildOutput' = {}
    /\ exc' = None
    /\ exitStatus' = Running
    /\ outputBefore' = output
    /\ UNCHANGED <<gitignoreExists, gitignoreFile, dirEntries, csprojFiles,
                   output>>

-----------------------------------------------------------------------------
(* Specifications *)

\* "Foo\nTests"
FooTestsIgnore == <<"F","o","o","\n","T","e","s","t","s">>

\* sequences without repetition: scandir yields every entry once
NoRepeat(s) == \A i, j \in 1..Len(s) : s[i] = s[j] => i = j

Range(s) == {s[i] : i \in 1..Len(s)}

\* prev of the first process
NoRun == [exitStatus |-> Running, exc |-> None, buildOutput |-> {}]

\* a process that has just started
Started ==
    /\ pc = "parse"
    /\ docfxArg = None
    /\ outputArg = None
    /\ docfxPath = None
    /\ tempDirExists = FALSE
    /\ tempFiles = {}
    /\ gitignores = {}
    /\ projects = <<>>
    /\ invocations = <<>>
    /\ calls = <<>>
    /\ buildOutput = {}
    /\ exc = None
    /\ exitStatus = Running
    /\ outputBefore = output
    /\ runs = 1
    /\ prev = NoRun

\* a process given --docfx-path and --output that is about to open
\* .gitignore
AtReadIgnore ==
    /\ pc = "readIgnore"
    /\ docfxArg = GivenDocfx
    /\ outputArg = OutputPath
    /\ docfxPath = GivenDocfx
    /\ tempDirExists = TRUE
    /\ tempFiles = {"docfx.json"}
    /\ gitignores = {}
    /\ projects = <<>>
    /\ invocations = <<>>
    /\ calls = <<Call("mkdtemp", "ok"), Call("writeConfig", "ok")>>
    /\ buildOutput = {}
    /\ exc = None
    /\ exitStatus = Running
    /\ outputBefore = output
    /\ runs = 1
    /\ prev = NoRun

\* the whole script, on a few repositories and every destination
Init ==
    /\ \/ gitignoreExists = FALSE /\ gitignoreFile = <<>>
       \/ gitignoreExists = TRUE /\ gitignoreFile \in {<<>>, ScenarioIgnore}
    /\ \/ dirEntries = ScenarioEntries /\ csprojFiles = ScenarioCsproj
       \/ dirEntries = <<>> /\ csprojFiles = {}
    /\ output \in OutputStates
    /\ Started

Next ==
    \/ ParseArgs
    \/ Resolve
    \/ Mkdtemp
    \/ WriteConfig
    \/ ReadIgnore
    \/ ScanDir
    \/ Metadata
    \/ Relocate
    \/ Build
    \/ RemoveOutput
    \/ MoveSite
    \/ Finally
    \/ Exit
    \/ Start

Spec == Init /\ [][Next]_vars

\* project discovery alone: reading .gitignore, then scanning
NextDiscovery ==
    \/ ReadIgnore
    \/ ScanDir

\* every ignore file of at most MaxLen characters, and the scenario's
InitIgnore ==
    /\ \/ gitignoreExists = FALSE /\ gitignoreFile = <<>>
       \/ /\ gitignoreExists = TRUE
          /\ gitignoreFile \in
                 SeqsUpTo(IgnoreAlphabet, MaxLen) \cup {ScenarioIgnore}
    /\ dirEntries = ScenarioEntries
    /\ csprojFiles = ScenarioCsproj
    /\ output = Absent
    /\ AtReadIgnore

SpecIgnore == InitIgnore /\ [][NextDiscovery]_vars

\* every listing of at most MaxEntries entries, and the scenario's, with
\* every set of descriptor files
InitDiscover ==
    /\ \/ gitignoreExists = FALSE /\ gitignoreFile = <<>>
       \/ /\ gitignoreExists = TRUE
          /\ gitignoreFile \in {<<>>, ScenarioIgnore, FooTestsIgnore}
    /\ dirEntries \in
           {s \in SeqsUpTo(EntryNames, MaxEntries) : NoRepeat(s)}
               \cup {ScenarioEntries}
    /\ csprojFiles \in SUBSET Range(dirEntries)
    /\ output = Absent
    /\ AtReadIgnore

SpecDiscover == InitDiscover /\ [][NextDiscovery]_vars

-----------------------------------------------------------------------------
(* Properties *)

\* the order of the script's steps
StepOrder == <<"which", "mkdtemp", "writeConfig", "readIgnore", "scan",
               "metadata", "relocate", "build", "rmtreeOutput", "moveSite",
               "rmtreeTemp">>

Rank(op) == CHOOSE i \in 1..Len(StepOrder) : StepOrder[i] = op

Ended == pc \in {"exit", "done"}

FailedInvocation ==
    \E i \in 1..Len(invocations) : invocations[i].returncode # 0

PriorStepsSucceeded ==
    /\ docfxPath # None
    /\ Completed("mkdtemp")
    /\ Completed("writeConfig")
    /\ Completed("readIgnore")
    /\ Completed("scan")
    /\ Completed("metadata")
    /\ Completed("relocate")
    /\ Completed("build")
    /\ Len(invocations) = 2
    /\ \A i \in 1..2 : invocations[i].returncode = 0

\* C3 as stated: at termination the destination is exactly as it was before
\* the run or contains exactly the build output, and it is modified only if
\* every prior step succeeded.
C3_NoPartialState ==
    /\ output # outputBefore => PriorStepsSucceeded
    /\ pc = "done" =>
          \/ output = outputBefore
          \/ Completed("build") /\ output = Dir(buildOutput)

\* C3 amended: the destination is modified only if every prior step
\* succeeded; at termination it is exactly as before, or contains exactly the
\* build output, or, only when removing the old destination or moving the
\* build output failed (the exit status is then non-zero), it is absent, or
\* holds part of its old contents, or holds part of the build output.
C3_PartialOnlyWhenFinalizerFails ==
    /\ output # outputBefore => PriorStepsSucceeded
    /\ pc = "done" =>
          \/ output = outputBefore
          \/ Completed("moveSite") /\ output = Dir(buildOutput)
          \/ /\ exitStatus # 0
             /\ \E i \in 1..Len(calls) :
                   /\ calls[i].op \in {"rmtreeOutput", "moveSite"}
                   /\ calls[i].result # "ok"
             /\ \/ output = Absent
                \/ /\ output.kind = "dir"
                   /\ outputBefore.kind = "dir"
                   /\ output.files \subseteq outputBefore.files
                \/ /\ output.kind = "dir"
                   /\ output.files \subseteq buildOutput

\* the old destination was removed and the move then failed
C3_Witness ==
    /\ pc = "done"
    /\ Completed("rmtreeOutput")
    /\ Called("moveSite")
    /\ ~Completed("moveSite")
    /\ outputBefore.kind = "dir"
    /\ output = Absent

\* what follows a search path without docfx
ToolNotFoundAbort ==
    /\ exc = "RuntimeError"
    /\ Ended
    /\ ~Called("mkdtemp")
    /\ ~Called("readIgnore")
    /\ ~Called("scan")
    /\ ~tempDirExists
    /\ invocations = <<>>
    /\ output = outputBefore
    /\ pc = "done" => exitStatus # 0

\* C4 as stated: with no tool path given and no docfx on the search path the
\* run aborts before anything is read, scanned, created or invoked; with a
\* tool path given the search path is not consulted and that path is the one
\* invoked.
C4_GivenPathNeverSearched ==
    /\ (docfxArg = None /\ Called("which") /\ docfxPath = None)
           => ToolNotFoundAbort
    /\ (pc \notin {"parse", "resolve"} /\ outputArg # None /\ docfxArg # None)
           => /\ ~Called("which")
              /\ \A i \in 1..Len(invocations) : invocations[i].exe = docfxArg

\* C4 amended: with no tool path given and no docfx on the search path the
\* run aborts before anything is read, scanned, created or invoked; with a
\* non-empty tool path given the search path is not consulted and that path
\* is the one invoked.
C4_NonEmptyGivenPathNeverSearched ==
    /\ (docfxArg = None /\ Called("which") /\ docfxPath = None)
           => ToolNotFoundAbort
    /\ (pc \notin {"parse", "resolve"} /\ outputArg # None
            /\ docfxArg # None /\ docfxArg # "")
           => /\ ~Called("which")
              /\ docfxPath = docfxArg
              /\ \A i \in 1..Len(invocations) : invocations[i].exe = docfxArg

\* a run that found no tool, followed by a run given a tool path that
\* invoked it twice
C4_Witness ==
    /\ prev.exc = "RuntimeError"
    /\ pc = "done"
    /\ docfxArg = GivenDocfx
    /\ Len(invocations) = 2
    /\ ~Called("which")

\* tool resolution, ignore-file read, both invocations and finalization
\* completed
RunSucceeded ==
    /\ docfxPath # None
    /\ Completed("readIgnore")
    /\ Len(invocations) = 2
    /\ \A i \in 1..2 : invocations[i].returncode = 0
    /\ Completed("moveSite")

NoNewline(c, a, b) == \A k \in a..b : c[k] # "\n"

\* the entries of an ignore file, stated on its content: the stretches
\* a..b of one line that begin and end with a non-whitespace character and
\* have only whitespace between them and the ends of their line
TrimmedLines(c) ==
    {SubSeq(c, p[1], p[2]) : p \in
        {q \in (1..Len(c)) \X (1..Len(c)) :
            /\ q[1] <= q[2]
            /\ NoNewline(c, q[1], q[2])
            /\ c[q[1]] \notin Whitespace
            /\ c[q[2]] \notin Whitespace
            /\ \A k \in 1..(q[1]-1) :
                   NoNewline(c, k, q[1]-1) => c[k] \in Whitespace
            /\ \A k \in (q[2]+1)..Len(c) :
                   NoNewline(c, q[2]+1, k) => c[k] \in Whitespace}}

Contains(s, ch) == \E i \in 1..Len(s) : s[i] = ch

\* C6: the Exclusion Set is exactly the set of trimmed, non-empty lines of
\* the ignore file that contain neither "/" nor "*"; its entries are stored
\* trimmed, and the scenario's file yields exactly {"bin", "obj"}.
C6_ExclusionSetIsSimpleTrimmedLines ==
    Completed("readIgnore") =>
        /\ gitignores = {e \in TrimmedLines(gitignoreFile) :
                            ~Contains(e, "/") /\ ~Contains(e, "*")}
        /\ \A e \in gitignores :
              /\ e # <<>>
              /\ ~Contains(e, "/")
              /\ ~Contains(e, "*")
              /\ e[1] \notin Whitespace
              /\ e[Len(e)] \notin Whitespace
        /\ gitignoreFile = ScenarioIgnore => gitignores = {Bin, Obj}

\* the scenario's ignore file has been read
C6_Witness ==
    /\ Completed("readIgnore")
    /\ gitignoreFile = ScenarioIgnore
    /\ gitignores = {Bin, Obj}

\* positions of the scanned entries that are projects
Selected ==
    {i \in 1..Len(dirEntries) :
        /\ ~\E k \in 0..Len(dirEntries[i]) :
               dirEntries[i] = SubSeq(dirEntries[i], 1, k) \o TestsSuffix
        /\ dirEntries[i] \notin gitignores
        /\ dirEntries[i] \in csprojFiles}

\* the k-th position of Selected
NthSelected(k) ==
    CHOOSE i \in Selected : Cardinality({j \in Selected : j < i}) = k - 1

\* C7: the Project List holds the absolute path of <name>/<name>.csproj for
\* exactly the scanned entries whose name does not end with ".Tests", is not
\* in the Exclusion Set and whose descriptor exists, once each and in scan
\* order; the scenario's directory yields exactly [abspath("Foo/Foo.csproj")].
C7_ProjectListIsFilteredScan ==
    Completed("scan") =>
        /\ Len(projects) = Cardinality(Selected)
        /\ \A k \in 1..Len(projects) :
              LET name == dirEntries[NthSelected(k)]
              IN  projects[k] = <<Cwd[1], name, name \o CsprojExt>>
        /\ NoRepeat(projects)
        /\ (/\ dirEntries = ScenarioEntries
            /\ csprojFiles = ScenarioCsproj
            /\ gitignoreFile = ScenarioIgnore)
              => projects = << <<Cwd[1], Foo, Foo \o CsprojExt>> >>

\* the scenario's directory, with a descriptor in the ignored bin as well
C7_Witness ==
    /\ Completed("scan")
    /\ dirEntries = ScenarioEntries
    /\ csprojFiles = {Foo, FooTests, Bin}
    /\ gitignores = {Bin, Obj}
    /\ Len(projects) = 1

\* C8: the build output is moved in only once nothing is left at the
\* destination, so after a successful run the destination holds exactly the
\* build output, none of its prior contents and no nested site directory;
\* a successful run that follows a successful run with the same build
\* output leaves the destination as it found it.
C8_DestinationFullyReplaced ==
    /\ pc = "moveSite" => output = Absent
    /\ Completed("moveSite") => output = Dir(buildOutput)
    /\ (pc = "done" /\ exitStatus = 0) =>
          /\ output = Dir(buildOutput)
          /\ \A f \in outputBefore.files \ buildOutput : f \notin output.files
          /\ \A f \in output.files : Len(f) = 1
    /\ (/\ pc = "done"
        /\ exitStatus = 0
        /\ prev.exitStatus = 0
        /\ prev.buildOutput = buildOutput)
          => output = outputBefore

\* the second of two successful runs with the same, non-empty build output
C8_Witness ==
    /\ pc = "done"
    /\ exitStatus = 0
    /\ prev.exitStatus = 0
    /\ prev.buildOutput = buildOutput
    /\ buildOutput = SiteFiles
    /\ Completed("rmtreeOutput")

\* C9: the steps of a run occur in the order of the script and at most once
\* each: docfx.json is written before metadata is invoked, metadata has
\* exited with status zero before __api/__api is relocated, the relocation
\* is complete before build is invoked, build has exited with status zero
\* before the destination is touched, and the tool is invoked at most twice.
C9_StrictStepOrder ==
    /\ \A i, j \in 1..Len(calls) :
          i < j => Rank(calls[i].op) < Rank(calls[j].op)
    /\ Called("metadata") => Completed("writeConfig")
    /\ Called("relocate") =>
          /\ Completed("metadata")
          /\ invocations[1].mode = "metadata"
          /\ invocations[1].returncode = 0
    /\ Called("build") => Completed("relocate")
    /\ (Called("rmtreeOutput") \/ Called("moveSite")
            \/ output # outputBefore) =>
          /\ Completed("build")
          /\ invocations[2].mode = "build"
          /\ invocations[2].returncode = 0
    /\ Len(invocations) <= 2
    /\ \A i \in 1..Len(invocations) :
          invocations[i].mode = <<"metadata", "build">>[i]

\* a run that went through every step
C9_Witness ==
    /\ pc = "done"
    /\ Called("which")
    /\ Completed("rmtreeOutput")
    /\ Completed("moveSite")
    /\ Len(calls) = Len(StepOrder)

====
